---- MODULE Spec2Model ----
(***************************************************************************)
(* Model of ec2_manager.py: a command-line tool that lists, starts and     *)
(* stops EC2 instances through a boto3 client.                             *)
(*                                                                         *)
(* Text is modelled as a sequence of chunks (a chunk is a TLA+ string), so *)
(* that the empty string is <<>>, f-string formatting is concatenation and *)
(* Python's `needle in text` is a contiguous-subsequence search.           *)
(* A Python value is a record [t, v]: t is its type, v its text.           *)
(***************************************************************************)
EXTENDS Integers, Sequences, FiniteSets, TLC

VARIABLES
    argv,       \* the options on the command line
    args,       \* the dictionary docopt returns
    settings,   \* EC2Manager.settings
    pc,         \* where the script is
    calls,      \* the calls made on the boto3 client, in order
    out,        \* standard output, one element per print call
    exc,        \* the exception that ended the script, if any
    dryrun,     \* how the dry-run call of start() or stop() ended
    response,   \* what describe_instances returned
    instances,  \* what list_instances returned
    idx,        \* how many records the loop of __main__ has printed
    summary     \* what the last print_instance_summary call printed

vars == <<argv, args, settings, pc, calls, out, exc, dryrun, response, instances, idx, summary>>

----------------------------------------------------------------------------
(* Bounds *)

MaxReservations == 2
MaxInstances == 3

----------------------------------------------------------------------------
(* Python values *)

None == [t |-> "None", v |-> <<>>]
Str(s) == [t |-> "str", v |-> s]
Obj(ty, s) == [t |-> ty, v |-> s]

\* Python truthiness: None, "" and [] are false
Truthy(x) == x.t # "None" /\ x.v # <<>>

\* str(x) as used by f-strings: None is rendered as the text None
Fmt(x) == IF x.t = "None" THEN <<"None">> ELSE x.v

\* dict.get(key): None when the key is absent
Get(d, k) == IF k \in DOMAIN d THEN d[k] ELSE None

\* Python `needle in text`
Contains(text, needle) ==
    \E i \in 0..(Len(text) - Len(needle)) :
        SubSeq(text, i + 1, i + Len(needle)) = needle

----------------------------------------------------------------------------
(* Inputs *)

InstanceIds == { <<>>, <<"i-123">>, <<"DryRun", "Operation">> }

OptValues == {None} \cup { Str(i) : i \in InstanceIds }

\* What the user typed: which options are present, and with what value
ArgvSet ==
    [list : BOOLEAN, start : OptValues, stop : OptValues,
     quiet : BOOLEAN, verbose : BOOLEAN, test : BOOLEAN]

NoArgs == [list |-> FALSE, start |-> None, stop |-> None,
           quiet |-> FALSE, verbose |-> FALSE, test |-> FALSE]

Settings(instance_id, test, verbose, quiet) ==
    [instance_id |-> instance_id, test |-> test, verbose |-> verbose, quiet |-> quiet]

SettingsSet ==
    { Settings(i, t, v, q) : i \in OptValues, t \in BOOLEAN, v \in BOOLEAN, q \in BOOLEAN }

NoSettings == Settings(None, FALSE, FALSE, FALSE)

----------------------------------------------------------------------------
(* The boto3 client: every remote call returns, raises a ClientError that  *)
(* carries a code and a message, or raises some other exception (botocore's*)
(* parameter validation, a transport failure).                             *)

DryRunOperation == <<"DryRun", "Operation">>

Ok == [kind |-> "ok", code |-> <<>>, message |-> <<>>]
ClientError(code, message) == [kind |-> "ClientError", code |-> code, message |-> message]
OtherError == [kind |-> "OtherError", code |-> <<>>, message |-> <<>>]

\* The errors the provider may answer a start/stop call with; the last one
\* echoes the instance id of the request in its message.
ProviderErrors(instance_id) ==
    { ClientError(DryRunOperation,
                  <<"Request would have succeeded, but DryRun flag is set.">>),
      ClientError(<<"Unauthorized", "Operation">>,
                  <<"You are not authorized to perform this operation.">>),
      ClientError(<<"InvalidInstanceID.Malformed">>,
                  <<"Invalid id: \"">> \o Fmt(instance_id) \o <<"\"">>) }

ActionOutcomes(instance_id) == {Ok, OtherError} \cup ProviderErrors(instance_id)

DescribeErrors ==
    { ClientError(<<"Unauthorized", "Operation">>,
                  <<"You are not authorized to perform this operation.">>),
      OtherError }

\* str(e) of a ClientError
ErrorStr(e, operation) ==
    <<"An error occurred (">> \o e.code \o <<") when calling the ", operation,
      " operation: ">> \o e.message

Call(op, instance_id, dry_run) == [op |-> op, InstanceIds |-> <<instance_id>>, DryRun |-> dry_run]
DescribeCall == [op |-> "describe_instances", InstanceIds |-> <<>>, DryRun |-> FALSE]

----------------------------------------------------------------------------
(* docopt(__doc__): the usage line                                          *)
(*   (--list | --start INSTANCE | --stop INSTANCE) [--quiet | --verbose] [--test] *)

UsageAccepts(a) ==
    /\ \/ a.list /\ a.start = None /\ a.stop = None
       \/ ~a.list /\ a.start # None /\ a.stop = None
       \/ ~a.list /\ a.start = None /\ a.stop # None
    /\ ~(a.quiet /\ a.verbose)

docopt ==
    /\ pc = "docopt"
    /\ IF UsageAccepts(argv)
         THEN args' = argv /\ pc' = "main"
         ELSE args' = args /\ pc' = "usage_error"
    /\ UNCHANGED <<argv, settings, calls, out, exc, dryrun, response, instances, idx, summary>>

----------------------------------------------------------------------------
(* EC2Manager.not_quiet, EC2Manager.verbose_output: the lines a call prints *)

\* faulty variant: the test of the flag is inverted
not_quiet_inverted(s, message) == IF s.quiet THEN <<message>> ELSE <<>>

not_quiet(s, message) == IF ~s.quiet THEN <<message>> ELSE <<>>

\* faulty variant: quiet silences the verbose lines too
verbose_output_unless_quiet(s, message) ==
    IF s.verbose /\ ~s.quiet THEN <<message>> ELSE <<>>

verbose_output(s, message) == IF s.verbose THEN <<message>> ELSE <<>>

----------------------------------------------------------------------------
(* __main__ *)

\* `if instance_id := args.get("--start")`
StartSelected(a) == Truthy(a.start)

main ==
    /\ pc = "main"
    /\ IF ~args.list
         THEN IF StartSelected(args)
                THEN /\ settings' = Settings(args.start, args.test, args.verbose, args.quiet)
                     /\ pc' = "start"
                     /\ out' = out
                ELSE /\ settings' = Settings(args.stop, args.test, args.verbose, args.quiet)
                     /\ pc' = "stop"
                     /\ out' = out
         ELSE /\ settings' = Settings(Str(<<>>), args.test, args.verbose, args.quiet)
              /\ pc' = "list_instances"
              /\ out' = out \o not_quiet(settings', <<"Instances found in your AWS account:\n">>)
    /\ UNCHANGED <<argv, args, calls, exc, dryrun, response, instances, idx, summary>>

----------------------------------------------------------------------------
(* EC2Manager.start *)

NoExc == [kind |-> "none", code |-> <<>>, message |-> <<>>]

\* faulty variant: only the message of the error is searched
StartDryRunPassedByMessage(e) == Contains(e.message, DryRunOperation)

\* `"DryRunOperation" not in str(e)`, negated: the dry run counts as passed
StartDryRunPassed(e) == Contains(ErrorStr(e, "StartInstances"), DryRunOperation)

\* the except clause of the dry run: what it prints
StartDryRunPrints(s, dry) ==
    IF dry.kind = "ClientError"
      THEN IF ~StartDryRunPassed(dry)
             THEN IF s.test
                    THEN << <<"Test failed, can't start ">> \o Fmt(s.instance_id) \o <<".\n">>
                            \o ErrorStr(dry, "StartInstances") >>
                    ELSE <<>>
             ELSE IF s.test
                    THEN << <<"Test successful, able to start ">> \o Fmt(s.instance_id) \o <<".">> >>
                    ELSE <<>>
      ELSE <<>>

\* faulty variant: the test-mode return is missing
StartFallsThrough(s) == FALSE

\* `if self.settings.test: return`
StartReturnsAfterDryRun(s) == s.test

\* the second try statement: what it prints
StartRealPrints(s, real) ==
    IF real.kind = "ClientError"
      THEN << <<"ERROR: ">> \o ErrorStr(real, "StartInstances") >>
      ELSE << <<"Command successful, ">> \o Fmt(s.instance_id) \o <<" is staring...">> >>

start ==
    /\ pc = "start"
    /\ \E dry \in ActionOutcomes(settings.instance_id),
          real \in ActionOutcomes(settings.instance_id) :
         /\ dryrun' = dry
         /\ LET dryCall == Call("start_instances", settings.instance_id, TRUE)
                realCall == Call("start_instances", settings.instance_id, FALSE)
                out1 == out \o StartDryRunPrints(settings, dry)
            IN  IF dry.kind = "OtherError"
                  THEN /\ calls' = Append(calls, dryCall)
                       /\ out' = out
                       /\ exc' = dry
                       /\ pc' = "crashed"
                  ELSE IF StartReturnsAfterDryRun(settings)
                    THEN /\ calls' = Append(calls, dryCall)
                         /\ out' = out1
                         /\ exc' = exc
                         /\ pc' = "done"
                    ELSE IF real.kind = "OtherError"
                      THEN /\ calls' = calls \o <<dryCall, realCall>>
                           /\ out' = out1
                           /\ exc' = real
                           /\ pc' = "crashed"
                      ELSE /\ calls' = calls \o <<dryCall, realCall>>
                           /\ out' = out1 \o StartRealPrints(settings, real)
                           /\ exc' = exc
                           /\ pc' = "done"
    /\ UNCHANGED <<argv, args, settings, response, instances, idx, summary>>

----------------------------------------------------------------------------
(* EC2Manager.stop *)

StopDryRunPassed(e) == Contains(ErrorStr(e, "StopInstances"), DryRunOperation)

StopDryRunPrints(s, dry) ==
    IF dry.kind = "ClientError"
      THEN IF ~StopDryRunPassed(dry)
             THEN IF s.test
                    THEN << <<"Test failed, can't stop ">> \o Fmt(s.instance_id) \o <<".\n">>
                            \o ErrorStr(dry, "StopInstances") >>
                    ELSE <<>>
             ELSE IF s.test
                    THEN << <<"Test successful, able to stop ">> \o Fmt(s.instance_id) \o <<".">> >>
                    ELSE <<>>
      ELSE <<>>

\* faulty variant: stop() returns after the dry run in every mode
StopAlwaysReturns(s) == TRUE

StopReturnsAfterDryRun(s) == s.test

StopRealPrints(s, real) ==
    IF real.kind = "ClientError"
      THEN << <<"ERROR: ">> \o ErrorStr(real, "StopInstances") >>
      ELSE << <<"Command successful, ">> \o Fmt(s.instance_id) \o <<" is stopping...">> >>

stop ==
    /\ pc = "stop"
    /\ \E dry \in ActionOutcomes(settings.instance_id),
          real \in ActionOutcomes(settings.instance_id) :
         /\ dryrun' = dry
         /\ LET dryCall == Call("stop_instances", settings.instance_id, TRUE)
                realCall == Call("stop_instances", settings.instance_id, FALSE)
                out1 == out \o StopDryRunPrints(settings, dry)
            IN  IF dry.kind = "OtherError"
                  THEN /\ calls' = Append(calls, dryCall)
                       /\ out' = out
                       /\ exc' = dry
                       /\ pc' = "crashed"
                  ELSE IF StopReturnsAfterDryRun(settings)
                    THEN /\ calls' = Append(calls, dryCall)
                         /\ out' = out1
                         /\ exc' = exc
                         /\ pc' = "done"
                    ELSE IF real.kind = "OtherError"
                      THEN /\ calls' = calls \o <<dryCall, realCall>>
                           /\ out' = out1
                           /\ exc' = real
                           /\ pc' = "crashed"
                      ELSE /\ calls' = calls \o <<dryCall, realCall>>
                           /\ out' = out1 \o StopRealPrints(settings, real)
                           /\ exc' = exc
                           /\ pc' = "done"
    /\ UNCHANGED <<argv, args, settings, response, instances, idx, summary>>

----------------------------------------------------------------------------
(* describe_instances responses.  An instance entry is a dict; a valid     *)
(* entry always carries Placement and State, the other keys may be absent. *)

BaseEntry(id, type, state) ==
    [ImageId |-> Str(<<"ami-0abc">>),
     InstanceId |-> Str(id),
     InstanceType |-> Str(type),
     LaunchTime |-> Obj("datetime", <<"2020-01-01 00:00:00+00:00">>),
     Placement |-> [AvailabilityZone |-> Str(<<"us-east-1a">>)],
     PrivateDnsName |-> Str(<<"ip-10-0-0-1.ec2.internal">>),
     PrivateIpAddress |-> Str(<<"10.0.0.1">>),
     State |-> [Name |-> Str(state)],
     SubnetId |-> Str(<<"subnet-1">>),
     VpcId |-> Str(<<"vpc-1">>)]

With(d, k, val) == (k :> val) @@ d

\* no public name or address, and no tags
EntryAbsent == BaseEntry(<<"i-1">>, <<"t2.micro">>, <<"stopped">>)

\* a stopped instance as EC2 reports it: PublicDnsName is "", no address
EntryEmpty ==
    With(With(BaseEntry(<<"i-2">>, <<"t3.small">>, <<"stopped">>),
              "PublicDnsName", Str(<<>>)),
         "Tags", Obj("list", <<"[{'Key': 'Name', 'Value': 'db'}]">>))

\* a running instance with both
EntryPublic ==
    With(With(With(BaseEntry(<<"i-3">>, <<"t2.micro">>, <<"running">>),
                   "PublicDnsName", Str(<<"ec2-1-2-3-4.compute-1.amazonaws.com">>)),
              "PublicIpAddress", Str(<<"1.2.3.4">>)),
         "Tags", Obj("list", <<"[]">>))

\* an address that is present and empty
EntryEmptyIp ==
    With(With(BaseEntry(<<"i-4">>, <<"m5.large">>, <<"pending">>),
              "PublicDnsName", Str(<<"ec2-5-6-7-8.compute-1.amazonaws.com">>)),
         "PublicIpAddress", Str(<<>>))

Entries == {EntryAbsent, EntryEmpty, EntryPublic, EntryEmptyIp}

SeqsUpTo(S, n) == UNION { [1..k -> S] : k \in 0..n }

Reservation(insts) == [Instances |-> insts]

RECURSIVE ReservationSeqs(_, _)
\* the sequences of at most r reservations that hold at most n instances in all
ReservationSeqs(r, n) ==
    IF r = 0
      THEN { <<>> }
      ELSE { <<>> } \cup
           UNION { { <<Reservation(insts)>> \o rest :
                       rest \in ReservationSeqs(r - 1, n - Len(insts)) } :
                   insts \in SeqsUpTo(Entries, n) }

Responses == { [Reservations |-> rs] : rs \in ReservationSeqs(MaxReservations, MaxInstances) }

NoResponse == [Reservations |-> <<>>]

----------------------------------------------------------------------------
(* EC2Manager.instance_from_response *)

\* `if dns := instance.get("PublicDnsName")`
PublicDnsName(instance) ==
    IF Truthy(Get(instance, "PublicDnsName"))
      THEN Get(instance, "PublicDnsName")
      ELSE Str(<<"NONE">>)

\* faulty variant: the default is applied on absence only
PublicIpAddressIfPresent(instance) ==
    IF "PublicIpAddress" \in DOMAIN instance
      THEN instance["PublicIpAddress"]
      ELSE Str(<<"NONE">>)

\* `if ip := instance.get("PublicIpAddress")`
PublicIpAddress(instance) ==
    IF Truthy(Get(instance, "PublicIpAddress"))
      THEN Get(instance, "PublicIpAddress")
      ELSE Str(<<"NONE">>)

EC2Instance(instance) ==
    [image_id |-> Get(instance, "ImageId"),
     instance_id |-> Get(instance, "InstanceId"),
     instance_type |-> Get(instance, "InstanceType"),
     launch_time |-> Get(instance, "LaunchTime"),
     availability_zone |-> Get(Get(instance, "Placement"), "AvailabilityZone"),
     private_dns_name |-> Get(instance, "PrivateDnsName"),
     private_ip_address |-> Get(instance, "PrivateIpAddress"),
     public_dns_name |-> PublicDnsName(instance),
     public_ip_address |-> PublicIpAddress(instance),
     state |-> Get(Get(instance, "State"), "Name"),
     subnet_id |-> Get(instance, "SubnetId"),
     vpc_id |-> Get(instance, "VpcId"),
     tags |-> Get(instance, "Tags")]

\* faulty variant: the record is put in front
PrependInstance(ec2_instances, ec2_instance) == <<ec2_instance>> \o ec2_instances

\* `ec2_instances.append(ec2_instance)`
AppendInstance(ec2_instances, ec2_instance) == Append(ec2_instances, ec2_instance)

RECURSIVE ForInstances(_, _)
\* the inner loop: `for instance in reservation.get("Instances")`
ForInstances(insts, ec2_instances) ==
    IF insts = <<>>
      THEN ec2_instances
      ELSE ForInstances(Tail(insts), AppendInstance(ec2_instances, EC2Instance(Head(insts))))

RECURSIVE ForReservations(_, _)
\* the outer loop: `for reservation in response.get("Reservations")`
ForReservations(rs, ec2_instances) ==
    IF rs = <<>>
      THEN ec2_instances
      ELSE ForReservations(Tail(rs), ForInstances(Head(rs).Instances, ec2_instances))

instance_from_response(resp) == ForReservations(resp.Reservations, <<>>)

----------------------------------------------------------------------------
(* EC2Manager.list_instances, called from __main__; its errors are not caught *)

list_instances ==
    /\ pc = "list_instances"
    /\ calls' = Append(calls, DescribeCall)
    /\ \/ \E r \in Responses :
            /\ response' = r
            /\ instances' = instance_from_response(r)
            /\ pc' = IF instances' = <<>> THEN "done" ELSE "print"
            /\ exc' = exc
       \/ \E e \in DescribeErrors :
            /\ exc' = e
            /\ pc' = "crashed"
            /\ UNCHANGED <<response, instances>>
    /\ UNCHANGED <<argv, args, settings, out, dryrun, idx, summary>>

----------------------------------------------------------------------------
(* EC2Manager.print_instance_summary *)

DividerLine == <<"~~~~~~~~~~~~~~~~~~~~~~~~~~~~~~~~~~~~~~">>

Line(label, value) == <<label>> \o Fmt(value)

print_instance_summary(s, instance) ==
    <<Fmt(instance.instance_id)>>
    \o not_quiet(s, DividerLine)
    \o verbose_output(s, Line("  AMI:         ", instance.image_id))
    \o not_quiet(s, Line("  Type:        ", instance.instance_type))
    \o verbose_output(s, Line("  Launched:    ", instance.launch_time))
    \o verbose_output(s, Line("  AZ:          ", instance.availability_zone))
    \o verbose_output(s, Line("  Private DNS: ", instance.private_dns_name))
    \o verbose_output(s, Line("  Public DNS:  ", instance.public_dns_name))
    \o not_quiet(s, Line("  Private IP:  ", instance.private_ip_address))
    \o not_quiet(s, Line("  Public IP:   ", instance.public_ip_address))
    \o verbose_output(s, Line("  Subnet Id:   ", instance.subnet_id))
    \o verbose_output(s, Line("  VPC Id:      ", instance.vpc_id))
    \o not_quiet(s, Line("  State:       ", instance.state))
    \o verbose_output(s, Line("  Tags:        ", instance.tags))
    \o << <<>> >>

\* `for i in all_instances: manager.print_instance_summary(instance=i)`, one turn
print_loop ==
    /\ pc = "print"
    /\ idx < Len(instances)
    /\ summary' = print_instance_summary(settings, instances[idx + 1])
    /\ out' = out \o summary'
    /\ idx' = idx + 1
    /\ pc' = IF idx' = Len(instances) THEN "done" ELSE "print"
    /\ UNCHANGED <<argv, args, settings, calls, exc, dryrun, response, instances>>

----------------------------------------------------------------------------
(* The script, run on a command line *)

Init ==
    /\ argv \in ArgvSet
    /\ args = NoArgs
    /\ settings = NoSettings
    /\ pc = "docopt"
    /\ calls = <<>>
    /\ out = <<>>
    /\ exc = NoExc
    /\ dryrun = NoExc
    /\ response = NoResponse
    /\ instances = <<>>
    /\ idx = 0
    /\ summary = <<>>

Next == docopt \/ main \/ start \/ stop \/ list_instances \/ print_loop

Spec == Init /\ [][Next]_vars

(* An EC2Manager built on any Settings value, and one of its operations    *)
(* called: start(), stop(), or list_instances() with a summary printed for *)
(* each record.                                                            *)

InitManager ==
    /\ argv = NoArgs
    /\ args = NoArgs
    /\ settings \in SettingsSet
    /\ pc \in {"start", "stop", "list_instances"}
    /\ calls = <<>>
    /\ out = <<>>
    /\ exc = NoExc
    /\ dryrun = NoExc
    /\ response = NoResponse
    /\ instances = <<>>
    /\ idx = 0
    /\ summary = <<>>

NextManager == start \/ stop \/ list_instances \/ print_loop

SpecManager == InitManager /\ [][NextManager]_vars

----------------------------------------------------------------------------
(* Properties *)

IsAction(c) == c.op \in {"start_instances", "stop_instances"}

RealCalls == { i \in 1..Len(calls) : IsAction(calls[i]) /\ ~calls[i].DryRun }

ActionRan == dryrun.kind # "none"

\* C1: in test mode start() and stop() never issue a call with DryRun=False,
\* however the dry-run call ends.
TestModeNeverChangesState ==
    settings.test => RealCalls = {}

TestModeRan ==
    /\ settings.test
    /\ pc = "done"
    /\ dryrun.kind = "ok"
    /\ Len(calls) = 1
    /\ IsAction(calls[1])
    /\ calls[1].DryRun

ProviderErrorsNeverPropagate ==
    pc = "crashed" => exc.kind # "ClientError"

----------------------------------------------------------------------------
(* The instance entries of a response, located without the mapper *)

RECURSIVE InstancesBefore(_, _)
\* how many instances the reservations before the r-th hold
InstancesBefore(rs, r) ==
    IF r <= 1 THEN 0 ELSE InstancesBefore(rs, r - 1) + Len(rs[r - 1].Instances)

TotalInstances(rs) == InstancesBefore(rs, Len(rs) + 1)

\* every (record, source entry) pair of the last listing
Mapped ==
    { <<instances[InstancesBefore(response.Reservations, r) + i],
        response.Reservations[r].Instances[i]>> :
        <<r, i>> \in { p \in (1..Len(response.Reservations)) \X (1..Len(instances)) :
                        /\ p[2] <= Len(response.Reservations[p[1]].Instances)
                        /\ InstancesBefore(response.Reservations, p[1]) + p[2]
                              <= Len(instances) } }

PassedThrough(rec, entry) ==
    /\ "ImageId" \in DOMAIN entry => rec.image_id = entry.ImageId
    /\ "InstanceId" \in DOMAIN entry => rec.instance_id = entry.InstanceId
    /\ "InstanceType" \in DOMAIN entry => rec.instance_type = entry.InstanceType
    /\ "LaunchTime" \in DOMAIN entry => rec.launch_time = entry.LaunchTime
    /\ rec.availability_zone = entry.Placement.AvailabilityZone
    /\ "PrivateDnsName" \in DOMAIN entry => rec.private_dns_name = entry.PrivateDnsName
    /\ "PrivateIpAddress" \in DOMAIN entry => rec.private_ip_address = entry.PrivateIpAddress
    /\ rec.state = entry.State.Name
    /\ "SubnetId" \in DOMAIN entry => rec.subnet_id = entry.SubnetId
    /\ "VpcId" \in DOMAIN entry => rec.vpc_id = entry.VpcId
    /\ "Tags" \in DOMAIN entry => rec.tags = entry.Tags

\* C4 (as claimed): a public name or address is "NONE" exactly when its key is
\* absent from the entry, and every other field is passed through.
NoneIffAbsent ==
    \A m \in Mapped :
        /\ m[1].public_dns_name = Str(<<"NONE">>) <=> "PublicDnsName" \notin DOMAIN m[2]
        /\ m[1].public_ip_address = Str(<<"NONE">>) <=> "PublicIpAddress" \notin DOMAIN m[2]
        /\ PassedThrough(m[1], m[2])

Missing(entry, key) == key \notin DOMAIN entry \/ entry[key] = Str(<<>>)

\* C4 (amended): a public name or address is "NONE" when its key is absent or
\* its value is the empty string, and is the entry's value otherwise; every
\* other field is passed through.
NoneWhenAbsentOrEmpty ==
    \A m \in Mapped :
        /\ m[1].public_dns_name =
              IF Missing(m[2], "PublicDnsName") THEN Str(<<"NONE">>) ELSE m[2].PublicDnsName
        /\ m[1].public_ip_address =
              IF Missing(m[2], "PublicIpAddress") THEN Str(<<"NONE">>) ELSE m[2].PublicIpAddress
        /\ PassedThrough(m[1], m[2])

EmptyAndAbsentAndPresentMapped ==
    /\ pc = "done"
    /\ Len(instances) = 3
    /\ \E m \in Mapped : "PublicIpAddress" \in DOMAIN m[2] /\ m[2].PublicIpAddress = Str(<<>>)
    /\ \E m \in Mapped : "PublicIpAddress" \notin DOMAIN m[2]
    /\ \E m \in Mapped : ~Missing(m[2], "PublicIpAddress") /\ ~Missing(m[2], "PublicDnsName")

----------------------------------------------------------------------------

Printed(line) == Cardinality({ k \in 1..Len(summary) : summary[k] = line })

Current == instances[idx]

\* C5 (as claimed): every summary holds the id line and the divider line,
\* whatever the flags are.
IdAndDividerAlwaysPrinted ==
    idx > 0 => /\ summary[1] = Fmt(Current.instance_id)
               /\ Printed(DividerLine) = 1

\* C5 (amended): every summary starts with the id line, whatever the flags
\* are; the divider line is printed exactly when quiet is not set.
IdAlwaysDividerUnlessQuiet ==
    idx > 0 => /\ summary[1] = Fmt(Current.instance_id)
               /\ Printed(DividerLine) = (IF settings.quiet THEN 0 ELSE 1)

QuietSummaryPrinted ==
    /\ idx > 0
    /\ settings.quiet
    /\ ~settings.verbose
    /\ summary = <<Fmt(Current.instance_id), <<>> >>

QuietGated ==
    { <<"  Type:        ">> \o Fmt(Current.instance_type),
      <<"  Private IP:  ">> \o Fmt(Current.private_ip_address),
      <<"  Public IP:   ">> \o Fmt(Current.public_ip_address),
      <<"  State:       ">> \o Fmt(Current.state) }

VerboseGated ==
    { <<"  AMI:         ">> \o Fmt(Current.image_id),
      <<"  Launched:    ">> \o Fmt(Current.launch_time),
      <<"  AZ:          ">> \o Fmt(Current.availability_zone),
      <<"  Private DNS: ">> \o Fmt(Current.private_dns_name),
      <<"  Public DNS:  ">> \o Fmt(Current.public_dns_name),
      <<"  Subnet Id:   ">> \o Fmt(Current.subnet_id),
      <<"  VPC Id:      ">> \o Fmt(Current.vpc_id),
      <<"  Tags:        ">> \o Fmt(Current.tags) }

\* C6: the type, private IP, public IP and state lines are printed exactly
\* when quiet is not set, and the eight verbose lines exactly when verbose is
\* set, whatever quiet is.
LinesGatedIndependently ==
    idx > 0 =>
        /\ Cardinality(QuietGated) = 4
        /\ Cardinality(VerboseGated) = 8
        /\ \A l \in QuietGated : Printed(l) = (IF settings.quiet THEN 0 ELSE 1)
        /\ \A l \in VerboseGated : Printed(l) = (IF settings.verbose THEN 1 ELSE 0)

QuietAndVerbosePrinted ==
    /\ idx > 0
    /\ settings.quiet
    /\ settings.verbose
    /\ Len(summary) = 10

----------------------------------------------------------------------------

Verb == IF calls[1].op = "start_instances" THEN "start" ELSE "stop"

TestSuccessfulLine ==
    <<"Test successful, able to " \o Verb \o " ">> \o Fmt(settings.instance_id) \o <<".">>

TestFailedPrefix ==
    <<"Test failed, can't " \o Verb \o " ">> \o Fmt(settings.instance_id) \o <<".\n">>

\* C7: in test mode, when the dry-run call raises the dry-run-success error,
\* the output is the one "Test successful" line naming the instance id and no
\* real call is made.
DryRunSuccessPrintsOneLine ==
    (ActionRan /\ settings.test /\ dryrun.kind = "ClientError" /\ dryrun.code = DryRunOperation)
        => /\ out = <<TestSuccessfulLine>>
           /\ RealCalls = {}

DryRunSuccessInTestMode ==
    /\ pc = "done"
    /\ settings.test
    /\ dryrun.kind = "ClientError"
    /\ dryrun.code = DryRunOperation
    /\ calls = <<Call("start_instances", Str(<<"i-123">>), TRUE)>>

\* C8: the mapper returns one record per instance entry, in the order of the
\* reservations and, within a reservation, of its instances.
OneRecordPerEntryInOrder ==
    /\ Len(instances) = TotalInstances(response.Reservations)
    /\ \A r \in 1..Len(response.Reservations) :
         \A i \in 1..Len(response.Reservations[r].Instances) :
            LET rec == instances[InstancesBefore(response.Reservations, r) + i]
                entry == response.Reservations[r].Instances[i]
            IN  /\ rec.instance_id = entry.InstanceId
                /\ rec.instance_type = entry.InstanceType
                /\ rec.state = entry.State.Name

TwoReservationsMapped ==
    /\ Len(response.Reservations) = 2
    /\ Len(response.Reservations[1].Instances) = 2
    /\ Len(response.Reservations[2].Instances) = 1
    /\ Len(instances) = 3
    /\ instances[1].instance_id # instances[2].instance_id
    /\ instances[2].instance_id # instances[3].instance_id

\* C9 (as claimed): in test mode a provider error raised by the dry-run call
\* counts as a passed check exactly when its code is DryRunOperation, and any
\* other code prints the "Test failed" message, whatever the message says.
ClassifiedByCode ==
    (ActionRan /\ settings.test /\ dryrun.kind = "ClientError")
        => /\ Len(out) = 1
           /\ out[1] = TestSuccessfulLine <=> dryrun.code = DryRunOperation
           /\ dryrun.code # DryRunOperation
                 => SubSeq(out[1], 1, Len(TestFailedPrefix)) = TestFailedPrefix

\* C10 (as claimed): the script runs the selected mode only: --list makes
\* describe calls only, --start ID start calls for ID only, --stop ID stop
\* calls for ID only.
OnlySelectedModeRuns ==
    \A i \in 1..Len(calls) :
        /\ args.list => calls[i].op = "describe_instances"
        /\ args.start # None
              => calls[i].op = "start_instances" /\ calls[i].InstanceIds = <<args.start>>
        /\ args.stop # None
              => calls[i].op = "stop_instances" /\ calls[i].InstanceIds = <<args.stop>>

====
